---- MODULE Spec2Model ----
(***************************************************************************)
(* micro-quant (src/main.py): the per-ticker decision engine and trade     *)
(* planner fetch_data, and the batch route scan_stocks.                    *)
(*                                                                         *)
(* Numbers.  Every Python float is held exactly, as an integer number of   *)
(* thousandths: 100.003 is 100003, an RSI of 30 is 30000, a risk_pct of    *)
(* 1.0 (percent) is 1000.  round(x, 2) is then rounding to a multiple of   *)
(* 10, round(x) rounding to a multiple of 1000.  Python rounds an exact    *)
(* tie to the even neighbour.  Binary floating-point error (of the order   *)
(* of 1e-13 at these magnitudes) is not modelled.                          *)
(*                                                                         *)
(* Strings.  A ticker and the raw form field are sequences of one-         *)
(* character strings, so that split/strip/upper are computed.  A reason    *)
(* built by an f-string is the sequence of its pieces.                     *)
(***************************************************************************)
EXTENDS Integers, Sequences, FiniteSets, TLC

VARIABLES
    call,         \* fetch_data under test: its arguments and the data the provider returns
    ret,          \* fetch_data under test: the StockResult returned, or NoResult
    request,      \* POST /scan: the form fields tickers, account_size, risk_pct
    app_state,    \* the single row (id = 1) of table app_state in scanner.db
    pc,           \* scan_stocks: position of the coroutine
    ticker_list,  \* scan_stocks: the parsed tickers
    tasks,        \* scan_stocks: one entry per fetch_data coroutine passed to gather
    finished,     \* indices of the tasks in the order in which they finished
    response      \* what POST /scan answers

vars == <<call, ret, request, app_state, pc, ticker_list, tasks, finished, response>>

(***************************************************************************)
(* Bounds of the model.                                                    *)
(***************************************************************************)
MaxPriceFrac == 9     \* latest Close ranges over 100.000 .. 100.000 + MaxPriceFrac/1000
MaxAtr == 3           \* ATR ranges over 0.000 .. MaxAtr/1000, and 2.000
MaxRawLen == 5        \* characters in the tickers form field

(***************************************************************************)
(* Arithmetic of Python floats on thousandths.                             *)
(***************************************************************************)
\* The integer nearest to n/d (d > 0), an exact tie going to the even one.
RoundHalfEven(n, d) ==
    LET q == n \div d
        r == n % d
    IN  IF 2 * r < d THEN q
        ELSE IF 2 * r > d THEN q + 1
        ELSE IF q % 2 = 0 THEN q ELSE q + 1

\* round(x, 2) of x thousandths, in thousandths.
Round2(x) == 10 * RoundHalfEven(x, 10)

\* round(x) of x thousandths: a Python int.
Round0(x) == RoundHalfEven(x, 1000)

\* round(n / d, 2) for d > 0, in thousandths.
RoundDiv2(n, d) == 10 * RoundHalfEven(100 * n, d)

\* math.floor(n / d) in the place of int(n / d)
FloorDiv(n, d) == n \div d

\* int(n / d) for d > 0: int() truncates toward zero.
IntDiv(n, d) == IF n >= 0 THEN n \div d ELSE -((-n) \div d)

(***************************************************************************)
(* Strings.                                                                *)
(***************************************************************************)
UpperChar(c) == IF c = "a" THEN "A" ELSE c

\* str.upper()
Upper(s) == [i \in 1..Len(s) |-> UpperChar(s[i])]

IsSpace(c) == c = " "

RECURSIVE LStrip(_)
LStrip(s) == IF s # <<>> /\ IsSpace(Head(s)) THEN LStrip(Tail(s)) ELSE s

RECURSIVE RStrip(_)
RStrip(s) ==
    IF s # <<>> /\ IsSpace(s[Len(s)]) THEN RStrip(SubSeq(s, 1, Len(s) - 1)) ELSE s

\* str.strip()
Strip(s) == RStrip(LStrip(s))

\* str.split(","): the pieces between commas, empty pieces included.
RECURSIVE Split(_)
Split(s) ==
    IF \A i \in 1..Len(s) : s[i] # ","
    THEN <<s>>
    ELSE LET i == CHOOSE k \in 1..Len(s) :
                      s[k] = "," /\ \A j \in 1..(k - 1) : s[j] # ","
         IN  <<SubSeq(s, 1, i - 1)>> \o Split(SubSeq(s, i + 1, Len(s)))

\* [t.strip() for t in tickers.split(",") if t.strip()]
ParseTickers(raw) ==
    LET parts == Split(raw)
        stripped == [i \in 1..Len(parts) |-> Strip(parts[i])]
    IN  SelectSeq(stripped, LAMBDA t : t # <<>>)

(***************************************************************************)
(* StockResult and the two terminal results of fetch_data.                 *)
(***************************************************************************)
NoResult == [error |-> "no result yet"]

\* lines 84-88: the StockResult returned for an empty or short history.
InsufficientData(ticker) ==
    [ticker |-> Upper(ticker), price |-> 0, ema_200 |-> 0, rsi |-> 0, adx |-> 0,
     macd |-> 0, macd_signal |-> 0, atr |-> 0, volume |-> 0, avg_volume |-> 0,
     trend |-> "N/A", signal |-> "N/A", reason |-> <<"Insufficient Data">>,
     stop_loss |-> 0, take_profit |-> 0, risk_reward |-> 0,
     shares_to_buy |-> 0, position_cost |-> 0, affordable |-> FALSE,
     actual_risk |-> 0, error |-> "No Data"]

\* lines 182-186: the StockResult built by the except clause; e is str(e).
CalcError(ticker, e) ==
    [ticker |-> Upper(ticker), price |-> 0, ema_200 |-> 0, rsi |-> 0, adx |-> 0,
     macd |-> 0, macd_signal |-> 0, atr |-> 0, volume |-> 0, avg_volume |-> 0,
     trend |-> "Error", signal |-> "Error", reason |-> <<e>>,
     stop_loss |-> 0, take_profit |-> 0, risk_reward |-> 0,
     shares_to_buy |-> 0, position_cost |-> 0, affordable |-> FALSE,
     actual_risk |-> 0, error |-> "Calc Error"]

\* How a call of fetch_data ends: it returns a StockResult or raises.
Return(r) == [raised |-> FALSE, result |-> r]
Raise(e) == [raised |-> TRUE, result |-> [error |-> e]]

(***************************************************************************)
(* The data frame.  df.len is len(df); df.latest is df.iloc[-1] after the  *)
(* indicator columns were appended, a function from the columns present    *)
(* to their values; df.vol20 is df["Volume"].tail(20).sum();               *)
(* df.fetch_error is the message of the exception raised by the provider   *)
(* and df.calc_error that of an exception raised by lines 91-112 ("" for   *)
(* none).                                                                  *)
(***************************************************************************)
\* the bar count compared against 199
InsufficientHistoryOffByOne(df) == df.len = 0 \/ df.len < 199

\* line 83: df.empty or len(df) < 200
InsufficientHistory(df) == df.len = 0 \/ df.len < 200

\* Series.get(col, default)
Get(latest, col, default) == IF col \in DOMAIN latest THEN latest[col] ELSE default

\* lines 106-112: the first column with the prefix, else 0.0
FirstCol(latest, cols) ==
    IF \E c \in cols : c \in DOMAIN latest
    THEN latest[CHOOSE c \in cols : c \in DOMAIN latest]
    ELSE 0

(***************************************************************************)
(* 2. Decision Engine, lines 115-140.                                      *)
(***************************************************************************)
\* a price equal to ema_200 taken for an uptrend
TrendAtOrAbove(price, ema_200) == IF price >= ema_200 THEN "Uptrend" ELSE "Downtrend"

\* line 115
Trend(price, ema_200) == IF price > ema_200 THEN "Uptrend" ELSE "Downtrend"

\* the threshold applied to the rounded adx that the reason prints
WeakTrendRounded(adx) == Round0(adx) < 20

\* line 121: the chop filter
WeakTrend(adx) == adx < 20000

\* macd touching macd_signal taken for a cross
MacdCrossOrTouch(macd, macd_signal) == macd >= macd_signal

\* line 130
MacdCross(macd, macd_signal) == macd > macd_signal

Decide(price, ema_200, rsi, adx, macd, macd_signal) ==
    LET trend == Trend(price, ema_200)
        adx_txt == ToString(Round0(adx))
    IN  IF trend = "Uptrend"
        THEN IF WeakTrend(adx)
             THEN [trend |-> trend, signal |-> "AVOID",
                   reason |-> <<"Weak Trend (ADX ", adx_txt, "). Chop Zone.">>]
             ELSE IF rsi < 30000
             THEN [trend |-> trend, signal |-> "STRONG BUY",
                   reason |-> <<"Extreme Oversold (<30). ADX ", adx_txt, ".">>]
             ELSE IF rsi < 50000
             THEN IF MacdCross(macd, macd_signal)
                  THEN [trend |-> trend, signal |-> "BUY SIGNAL",
                        reason |-> <<"Pullback + MACD Cross. ADX ", adx_txt, ".">>]
                  ELSE [trend |-> trend, signal |-> "WATCHLIST",
                        reason |-> <<"Pullback active. Wait for turn. ADX ", adx_txt, ".">>]
             ELSE [trend |-> trend, signal |-> "WAIT",
                   reason |-> <<"In Uptrend, but expensive. ADX ", adx_txt, ".">>]
        ELSE [trend |-> trend, signal |-> "AVOID",
              reason |-> <<"Downtrend (Below 200 EMA).">>]

(***************************************************************************)
(* 3. Trade Plan & Position Sizing, lines 143-156.                         *)
(***************************************************************************)
StopLoss(price, atr) == Round2(price - (2 * atr))

TakeProfit(price, atr) == Round2(price + (3 * atr))

\* line 146
RiskPerShare(price, atr) == price - StopLoss(price, atr)

\* account_size * (risk_pct / 100), exactly, in units of 10^-8: the product
\* of two numbers of thousandths is a number of millionths, and /100.
MaxRiskDollars(account_size, risk_pct) == account_size * risk_pct

\* the quotient rounded to the nearest integer instead of truncated
SharesRounded(price, atr, account_size, risk_pct) ==
    IF RiskPerShare(price, atr) > 0
    THEN RoundHalfEven(account_size * risk_pct, 100000 * RiskPerShare(price, atr))
    ELSE 0

\* lines 149-151; 100000 * risk_per_share is risk_per_share in units of 10^-8.
Shares(price, atr, account_size, risk_pct) ==
    IF RiskPerShare(price, atr) > 0
    THEN IntDiv(MaxRiskDollars(account_size, risk_pct), 100000 * RiskPerShare(price, atr))
    ELSE 0

\* the ratio of the two ATR multiples, not computed from the rounded levels
RRRatioFixed(price, atr) == IF RiskPerShare(price, atr) > 0 THEN 1500 ELSE 0

\* line 156
RRRatio(price, atr) ==
    IF RiskPerShare(price, atr) > 0
    THEN RoundDiv2(TakeProfit(price, atr) - price, price - StopLoss(price, atr))
    ELSE 0

TradePlan(price, atr, account_size, risk_pct) ==
    LET shares == Shares(price, atr, account_size, risk_pct)
        position_cost == Round2(shares * price)
    IN  [stop_loss |-> StopLoss(price, atr),
         take_profit |-> TakeProfit(price, atr),
         risk_reward |-> RRRatio(price, atr),
         shares_to_buy |-> shares,
         position_cost |-> position_cost,
         affordable |-> position_cost <= account_size,
         actual_risk |-> Round2(shares * RiskPerShare(price, atr))]

(***************************************************************************)
(* fetch_data, lines 74-186.                                               *)
(***************************************************************************)
\* lines 97-112: the values read from the latest bar.
Price(df) == df.latest["Close"]
Ema200(df) == Get(df.latest, "EMA_200", 0)
Rsi(df) == Get(df.latest, "RSI_14", 50000)
Atr(df) == Get(df.latest, "ATRr_14", 0)
Macd(df) == FirstCol(df.latest, {"MACD_12_26_9"})
MacdSignal(df) == FirstCol(df.latest, {"MACDs_12_26_9"})
Adx(df) == FirstCol(df.latest, {"ADX_14"})

\* lines 97-179: the StockResult of a history of at least 200 bars.
Analyse(ticker, df, account_size, risk_pct) ==
    LET d == Decide(Price(df), Ema200(df), Rsi(df), Adx(df), Macd(df), MacdSignal(df))
        p == TradePlan(Price(df), Atr(df), account_size, risk_pct)
    IN  [ticker |-> Upper(ticker),
         price |-> Round2(Price(df)),
         ema_200 |-> Round2(Ema200(df)),
         rsi |-> Round2(Rsi(df)),
         adx |-> Round2(Adx(df)),
         macd |-> Round2(Macd(df)),
         macd_signal |-> Round2(MacdSignal(df)),
         atr |-> Round2(Atr(df)),
         volume |-> Get(df.latest, "Volume", 0),
         avg_volume |-> df.vol20 \div 20,
         trend |-> d.trend, signal |-> d.signal, reason |-> d.reason,
         stop_loss |-> p.stop_loss, take_profit |-> p.take_profit,
         risk_reward |-> p.risk_reward, shares_to_buy |-> p.shares_to_buy,
         position_cost |-> p.position_cost, affordable |-> p.affordable,
         actual_risk |-> p.actual_risk, error |-> "None"]

\* The exception raised inside the try block, "" when none is: by the
\* provider (lines 77-81), or by the indicator and extraction code (lines
\* 91-112), which a short history never reaches.
Raised(df) ==
    IF df.fetch_error # "" THEN df.fetch_error
    ELSE IF InsufficientHistory(df) THEN ""
    ELSE df.calc_error

\* the exception let through
ExceptReraise(ticker, e) == Raise(e)

\* lines 181-186: except Exception as e
Except(ticker, e) == Return(CalcError(ticker, e))

fetch_data(ticker, df, account_size, risk_pct) ==
    IF Raised(df) # "" THEN Except(ticker, Raised(df))
    ELSE IF InsufficientHistory(df) THEN Return(InsufficientData(ticker))
    ELSE Return(Analyse(ticker, df, account_size, risk_pct))

(***************************************************************************)
(* scan_stocks, lines 198-219.                                             *)
(***************************************************************************)
\* line 216, and the default 5 of priority.get(x.signal, 5) on line 217
Priority(signal) ==
    CASE signal = "STRONG BUY" -> 0
      [] signal = "BUY SIGNAL" -> 1
      [] signal = "WATCHLIST" -> 2
      [] signal = "WAIT" -> 3
      [] signal = "AVOID" -> 4
      [] signal = "Error" -> 5
      [] OTHER -> 5

\* x is put behind every element whose key is not greater than its own.
Insert(sorted, x) ==
    LET keep == {k \in 0..Len(sorted) :
                    \A j \in 1..k : Priority(sorted[j].signal) <= Priority(x.signal)}
        k == CHOOSE m \in keep : \A o \in keep : o <= m
    IN  SubSeq(sorted, 1, k) \o <<x>> \o SubSeq(sorted, k + 1, Len(sorted))

\* line 217: list.sort(key=...), a stable sort; here by insertion, left to right.
RECURSIVE Sort(_)
Sort(results) ==
    IF results = <<>> THEN <<>>
    ELSE Insert(Sort(SubSeq(results, 1, Len(results) - 1)), results[Len(results)])

\* the results taken in the order in which the tasks finished
GatherResultsAsCompleted == [k \in 1..Len(finished) |-> tasks[finished[k]].outcome.result]

\* line 214: gather returns the results in the order of the awaitables passed to it.
GatherResults == [i \in 1..Len(tasks) |-> tasks[i].outcome.result]

\* save_state started but not awaited
SaveNotAwaited == app_state.write \in {"running", "committed"}

\* line 206: scan_stocks goes on once the awaited save_state call has returned.
SaveAwaited == app_state.write = "committed"

\* line 38: the row written by save_state.
Row(account_size, risk_pct, tickers) ==
    [account_size |-> account_size, risk_pct |-> risk_pct, tickers |-> tickers]

(***************************************************************************)
(* The inputs.                                                             *)
(***************************************************************************)
Latest(price, ema_200, rsi, atr, macd, macd_signal, adx) ==
    ("Close" :> price) @@ ("Volume" :> 1234) @@ ("EMA_200" :> ema_200)
    @@ ("RSI_14" :> rsi) @@ ("ATRr_14" :> atr) @@ ("MACD_12_26_9" :> macd)
    @@ ("MACDs_12_26_9" :> macd_signal) @@ ("ADX_14" :> adx)

\* A latest bar none of whose indicator columns was produced.
BareLatest(price) == ("Close" :> price) @@ ("Volume" :> 1234)

History(len, latest, fetch_error, calc_error) ==
    [len |-> len, latest |-> latest, vol20 |-> 24690,
     fetch_error |-> fetch_error, calc_error |-> calc_error]

Prices == {100000 + f : f \in 0..MaxPriceFrac}
Atrs == (0..MaxAtr) \cup {2000}
Emas == {90000, 100003, 110000}
Rsis == {25000, 30000, 45000, 50000}
Adxs == {19500, 20000, 30500}
Macds == {-500, 300, 500}
MacdSignals == {0, 300}
AccountSizes == {1000000, 1007000}
RiskPcts == {-1000, 0, 100, 1000}

LongHistories ==
    {History(200, Latest(p, e, r, a, m, ms, x), "", "") :
        p \in Prices, e \in Emas, r \in Rsis, a \in Atrs,
        m \in Macds, ms \in MacdSignals, x \in Adxs}
    \cup {History(504, BareLatest(p), "", "") : p \in Prices}

ShortHistories ==
    {History(n, BareLatest(100000), "", ce) :
        n \in {0, 1, 199}, ce \in {"", "cannot convert float NaN to integer"}}

FailedHistories ==
    {History(0, BareLatest(100000), "No timezone found", ""),
     History(200, Latest(100000, 90000, 25000, 2000, 500, 0, 30500), "",
             "cannot convert float NaN to integer")}

Histories == LongHistories \cup ShortHistories \cup FailedHistories

\* What the provider may answer to one ticker of a batch: one history for
\* each signal, a short one and a failing one.
ScanHistories ==
    {History(200, Latest(100000, 90000, 25000, 2000, 500, 0, 30500), "", ""),
     History(200, Latest(100000, 90000, 45000, 2000, 500, 0, 30500), "", ""),
     History(200, Latest(100000, 90000, 45000, 2000, -500, 0, 30500), "", ""),
     History(200, Latest(100000, 90000, 50000, 2000, 500, 0, 30500), "", ""),
     History(200, Latest(100000, 110000, 25000, 2000, 500, 0, 30500), "", ""),
     History(199, BareLatest(100000), "", ""),
     History(0, BareLatest(100000), "No timezone found", "")}

Alphabet == {"a", ",", " "}
RawTickers == UNION {[1..n -> Alphabet] : n \in 1..MaxRawLen}

\* 'AAPL, TSLA, MSFT, BTC-USD', the default of column tickers (line 24)
DefaultTickers ==
    <<"A", "A", "P", "L", ",", " ", "T", "S", "L", "A", ",", " ",
      "M", "S", "F", "T", ",", " ", "B", "T", "C", "-", "U", "S", "D">>

NoCall == [ticker |-> <<>>, df |-> History(0, BareLatest(0), "", ""),
           account_size |-> 0, risk_pct |-> 0]
Pending == [raised |-> FALSE, result |-> NoResult]
NoRequest == [tickers |-> <<>>, account_size |-> 0, risk_pct |-> 0]
NoResponse == [status |-> 0, results |-> <<>>]
\* The row inserted by init_db (lines 22-27); write is the state of the
\* save_state call of the request: "none", "running", "committed", "failed".
DefaultRow == [row |-> Row(10000000, 1000, DefaultTickers), write |-> "none"]

(***************************************************************************)
(* Specification of one call of fetch_data.                                *)
(***************************************************************************)
FetchInit ==
    /\ call \in {[ticker |-> <<"a", "B">>, df |-> h, account_size |-> a, risk_pct |-> r] :
                    h \in Histories, a \in AccountSizes, r \in RiskPcts}
    /\ ret = Pending
    /\ request = NoRequest
    /\ app_state = DefaultRow
    /\ pc = "idle"
    /\ ticker_list = <<>>
    /\ tasks = <<>>
    /\ finished = <<>>
    /\ response = NoResponse

ScanUnchanged == UNCHANGED <<request, app_state, pc, ticker_list, tasks, finished, response>>

\* lines 83-88
FetchInsufficient ==
    /\ ret = Pending
    /\ Raised(call.df) = ""
    /\ InsufficientHistory(call.df)
    /\ ret' = fetch_data(call.ticker, call.df, call.account_size, call.risk_pct)
    /\ UNCHANGED call
    /\ ScanUnchanged

\* lines 90-179
FetchAnalyse ==
    /\ ret = Pending
    /\ Raised(call.df) = ""
    /\ ~InsufficientHistory(call.df)
    /\ ret' = fetch_data(call.ticker, call.df, call.account_size, call.risk_pct)
    /\ UNCHANGED call
    /\ ScanUnchanged

\* lines 181-186
FetchExcept ==
    /\ ret = Pending
    /\ Raised(call.df) # ""
    /\ ret' = fetch_data(call.ticker, call.df, call.account_size, call.risk_pct)
    /\ UNCHANGED call
    /\ ScanUnchanged

FetchNext == FetchInsufficient \/ FetchAnalyse \/ FetchExcept

FetchSpec == FetchInit /\ [][FetchNext]_vars

(***************************************************************************)
(* Specification of one POST /scan.                                        *)
(***************************************************************************)
ScanInit ==
    /\ call = NoCall
    /\ ret = Pending
    /\ request \in {[tickers |-> raw, account_size |-> 1000000, risk_pct |-> 1000] :
                       raw \in RawTickers}
    /\ app_state = [DefaultRow EXCEPT !.write = "running"]
    /\ pc = "save"
    /\ ticker_list = <<>>
    /\ tasks = <<>>
    /\ finished = <<>>
    /\ response = NoResponse

\* lines 36-39: the thread running save_state commits the UPDATE.
SaveStateCommits ==
    /\ app_state.write = "running"
    /\ app_state' = [row |-> Row(request.account_size, request.risk_pct, request.tickers),
                     write |-> "committed"]
    /\ UNCHANGED <<call, ret, request, pc, ticker_list, tasks, finished, response>>

\* lines 36-39: sqlite3 raises (database locked, disk full), nothing is written.
SaveStateFails ==
    /\ app_state.write = "running"
    /\ app_state' = [app_state EXCEPT !.write = "failed"]
    /\ UNCHANGED <<call, ret, request, pc, ticker_list, tasks, finished, response>>

\* line 206: the await re-raises the exception of save_state out of the route.
ScanRaises ==
    /\ pc = "save"
    /\ app_state.write = "failed"
    /\ pc' = "done"
    /\ response' = [status |-> 500, results |-> <<>>]
    /\ UNCHANGED <<call, ret, request, app_state, ticker_list, tasks, finished>>

\* lines 208-211
RespondEmpty ==
    /\ pc = "save"
    /\ SaveAwaited
    /\ ParseTickers(request.tickers) = <<>>
    /\ ticker_list' = <<>>
    /\ pc' = "done"
    /\ response' = [status |-> 200, results |-> <<>>]
    /\ UNCHANGED <<call, ret, request, app_state, tasks, finished>>

\* lines 208-214: the coroutines are created and handed to gather.
FanOut ==
    /\ pc = "save"
    /\ SaveAwaited
    /\ ParseTickers(request.tickers) # <<>>
    /\ ticker_list' = ParseTickers(request.tickers)
    /\ tasks' = [i \in 1..Len(ParseTickers(request.tickers)) |->
                    [state |-> "created", df |-> NoCall.df, outcome |-> Pending]]
    /\ pc' = "gather"
    /\ UNCHANGED <<call, ret, request, app_state, finished, response>>

\* lines 76-81: the event loop runs the tasks in the order gather created
\* them; each hands its download to a thread and waits.
TaskStart(i) ==
    /\ pc = "gather"
    /\ tasks[i].state = "created"
    /\ \A j \in 1..(i - 1) : tasks[j].state # "created"
    /\ tasks' = [tasks EXCEPT ![i].state = "fetching"]
    /\ UNCHANGED <<call, ret, request, app_state, pc, ticker_list, finished, response>>

\* lines 81-186: the download of task i ends, in any order among the tasks,
\* and the rest of fetch_data runs without another await.
TaskFinish(i) ==
    /\ pc = "gather"
    /\ tasks[i].state = "fetching"
    /\ \E df \in ScanHistories :
          tasks' = [tasks EXCEPT ![i] =
                       [state |-> "done", df |-> df,
                        outcome |-> fetch_data(ticker_list[i], df,
                                               request.account_size, request.risk_pct)]]
    /\ finished' = Append(finished, i)
    /\ UNCHANGED <<call, ret, request, app_state, pc, ticker_list, response>>

\* lines 214-219: gather returns when every task is done, or raises the
\* first exception a task raised; the results are sorted and rendered.
Gather ==
    /\ pc = "gather"
    /\ \/ \A i \in 1..Len(tasks) : tasks[i].state = "done"
       \/ \E i \in 1..Len(tasks) : tasks[i].state = "done" /\ tasks[i].outcome.raised
    /\ response' = IF \E i \in 1..Len(tasks) : tasks[i].outcome.raised
                   THEN [status |-> 500, results |-> <<>>]
                   ELSE [status |-> 200, results |-> Sort(GatherResults)]
    /\ pc' = "done"
    /\ UNCHANGED <<call, ret, request, app_state, ticker_list, tasks, finished>>

ScanNext ==
    \/ SaveStateCommits
    \/ SaveStateFails
    \/ ScanRaises
    \/ RespondEmpty
    \/ FanOut
    \/ \E i \in 1..Len(tasks) : TaskStart(i)
    \/ \E i \in 1..Len(tasks) : TaskFinish(i)
    \/ Gather

ScanSpec == ScanInit /\ [][ScanNext]_vars

(***************************************************************************)
(* Properties of fetch_data (FetchSpec).                                   *)
(***************************************************************************)
Returned == ret # Pending /\ ~ret.raised

\* The call got a history of at least 200 bars and nothing raised.
Analysed ==
    /\ Returned
    /\ call.df.len >= 200
    /\ call.df.fetch_error = ""
    /\ call.df.calc_error = ""

HasPiece(reason, piece) == \E i \in 1..Len(reason) : reason[i] = piece

\* price - stop_loss, from the latest Close and the stop_loss of the result
ResultRiskPerShare == Price(call.df) - ret.result.stop_loss

\* C1: a history of at least 200 bars whose latest price is at most ema_200
\* gets trend "Downtrend", signal "AVOID" and the reason "Downtrend (Below
\* 200 EMA).", whatever adx, rsi, macd and macd_signal are.
C1_Downtrend ==
    (Analysed /\ Price(call.df) <= Ema200(call.df)) =>
        /\ ret.result.trend = "Downtrend"
        /\ ret.result.signal = "AVOID"
        /\ ret.result.reason = <<"Downtrend (Below 200 EMA).">>

\* price equal to ema_200, with indicators that would be a STRONG BUY in an uptrend
C1_Witness ==
    /\ Analysed
    /\ Price(call.df) = Ema200(call.df)
    /\ Adx(call.df) >= 20000
    /\ Rsi(call.df) < 30000
    /\ Macd(call.df) > MacdSignal(call.df)
    /\ ret.result.signal = "AVOID"

\* C2: with price > ema_200 and adx < 20 the signal is "AVOID" and the reason
\* names the Chop Zone, whatever rsi, macd and macd_signal are; no momentum
\* signal is produced with adx < 20.
C2_ChopFilter ==
    /\ (Analysed /\ Price(call.df) > Ema200(call.df) /\ Adx(call.df) < 20000) =>
          /\ ret.result.signal = "AVOID"
          /\ HasPiece(ret.result.reason, "). Chop Zone.")
    /\ (Analysed /\ Adx(call.df) < 20000) =>
          ret.result.signal \notin {"STRONG BUY", "BUY SIGNAL", "WATCHLIST", "WAIT"}

\* adx 19.5 (printed as 20), rsi < 30 and a bullish cross, in an uptrend
C2_Witness ==
    /\ Analysed
    /\ Price(call.df) > Ema200(call.df)
    /\ Adx(call.df) = 19500
    /\ Rsi(call.df) < 30000
    /\ Macd(call.df) > MacdSignal(call.df)
    /\ ret.result.reason = <<"Weak Trend (ADX ", "20", "). Chop Zone.">>

\* C3: with price > ema_200 and adx >= 20 the first matching rule decides:
\* rsi < 30 STRONG BUY; else rsi < 50 BUY SIGNAL when macd > macd_signal and
\* WATCHLIST when macd <= macd_signal; else WAIT.  The trend is "Uptrend".
C3_RuleTree ==
    (Analysed /\ Price(call.df) > Ema200(call.df) /\ Adx(call.df) >= 20000) =>
        /\ ret.result.trend = "Uptrend"
        /\ Rsi(call.df) < 30000 => ret.result.signal = "STRONG BUY"
        /\ (Rsi(call.df) >= 30000 /\ Rsi(call.df) < 50000
               /\ Macd(call.df) > MacdSignal(call.df)) =>
              ret.result.signal = "BUY SIGNAL"
        /\ (Rsi(call.df) >= 30000 /\ Rsi(call.df) < 50000
               /\ Macd(call.df) <= MacdSignal(call.df)) =>
              ret.result.signal = "WATCHLIST"
        /\ Rsi(call.df) >= 50000 => ret.result.signal = "WAIT"
        /\ Cardinality({s \in {"STRONG BUY", "BUY SIGNAL", "WATCHLIST", "WAIT"} :
                           ret.result.signal = s}) = 1

\* rsi exactly 30 and macd equal to macd_signal: a WATCHLIST
C3_Witness ==
    /\ Analysed
    /\ Price(call.df) > Ema200(call.df)
    /\ Adx(call.df) = 20000
    /\ Rsi(call.df) = 30000
    /\ Macd(call.df) = MacdSignal(call.df)
    /\ ret.result.signal = "WATCHLIST"

\* C4: an empty history or one of fewer than 200 bars gets the terminal
\* result: trend and signal "N/A", reason "Insufficient Data", error "No
\* Data", every numeric field 0; nothing is classified and nothing is sized.
C4_InsufficientData ==
    (ret # Pending /\ call.df.fetch_error = "" /\ call.df.len < 200) =>
        /\ ~ret.raised
        /\ ret.result.trend = "N/A"
        /\ ret.result.signal = "N/A"
        /\ ret.result.reason = <<"Insufficient Data">>
        /\ ret.result.error = "No Data"
        /\ \A f \in {"price", "ema_200", "rsi", "adx", "macd", "macd_signal", "atr",
                     "volume", "avg_volume", "stop_loss", "take_profit", "risk_reward",
                     "shares_to_buy", "position_cost", "actual_risk"} :
              ret.result[f] = 0
        /\ ret.result.affordable = FALSE

\* 199 bars, whose latest bar has a price
C4_Witness ==
    /\ Returned
    /\ call.df.fetch_error = ""
    /\ call.df.len = 199
    /\ Price(call.df) > 0
    /\ ret.result.error = "No Data"

\* max_risk_dollars and risk_per_share of the call, both in units of 10^-8
BudgetE8 == call.account_size * call.risk_pct
RiskPerShareE8 == 100000 * ResultRiskPerShare

\* C5 as stated: when risk_per_share > 0, shares_to_buy is the floor of
\* account_size * risk_pct/100 / risk_per_share, for every risk_pct; when
\* risk_per_share <= 0, shares_to_buy, position_cost and actual_risk are 0.
C5_AsStated ==
    (Analysed /\ call.account_size > 0) =>
        /\ ResultRiskPerShare > 0 =>
              ret.result.shares_to_buy = BudgetE8 \div RiskPerShareE8
        /\ ResultRiskPerShare <= 0 =>
              /\ ret.result.shares_to_buy = 0
              /\ ret.result.position_cost = 0
              /\ ret.result.actual_risk = 0

\* C5 amended: when risk_per_share > 0, shares_to_buy is the quotient
\* truncated toward zero: its floor when risk_pct >= 0, its ceiling when
\* risk_pct < 0; when risk_per_share <= 0, the three fields are 0.
C5_Sizing ==
    (Analysed /\ call.account_size > 0) =>
        /\ (ResultRiskPerShare > 0 /\ call.risk_pct >= 0) =>
              ret.result.shares_to_buy = BudgetE8 \div RiskPerShareE8
        /\ (ResultRiskPerShare > 0 /\ call.risk_pct < 0) =>
              ret.result.shares_to_buy = -((-BudgetE8) \div RiskPerShareE8)
        /\ ResultRiskPerShare <= 0 =>
              /\ ret.result.shares_to_buy = 0
              /\ ret.result.position_cost = 0
              /\ ret.result.actual_risk = 0

\* a negative risk_pct whose quotient is no integer: the floor is one less
C5_Witness ==
    /\ Analysed
    /\ call.risk_pct < 0
    /\ ResultRiskPerShare > 0
    /\ Atr(call.df) > 0
    /\ BudgetE8 % RiskPerShareE8 # 0
    /\ ret.result.shares_to_buy = (BudgetE8 \div RiskPerShareE8) + 1

\* C6 as stated: when risk_per_share > 0, risk_reward is (take_profit -
\* price)/(price - stop_loss) rounded to 2 decimals and that is 1.5 for every
\* price and atr; when risk_per_share <= 0 it is 0.
C6_AsStated ==
    Analysed =>
        /\ ResultRiskPerShare > 0 =>
              /\ ret.result.risk_reward =
                    RoundDiv2(ret.result.take_profit - Price(call.df), ResultRiskPerShare)
              /\ ret.result.risk_reward = 1500
        /\ ResultRiskPerShare <= 0 => ret.result.risk_reward = 0

\* C6 amended: when risk_per_share > 0, risk_reward is (take_profit - price)
\* / (price - stop_loss) rounded to 2 decimals, taken from the rounded
\* stop_loss and take_profit; it is 1.5 when the rounding changes neither
\* price - 2 atr nor price + 3 atr; when risk_per_share <= 0 it is 0.
C6_RiskReward ==
    Analysed =>
        /\ ResultRiskPerShare > 0 =>
              ret.result.risk_reward =
                  RoundDiv2(ret.result.take_profit - Price(call.df), ResultRiskPerShare)
        /\ (/\ ResultRiskPerShare > 0
            /\ ret.result.stop_loss = Price(call.df) - (2 * Atr(call.df))
            /\ ret.result.take_profit = Price(call.df) + (3 * Atr(call.df))) =>
              ret.result.risk_reward = 1500
        /\ ResultRiskPerShare <= 0 => ret.result.risk_reward = 0

\* a positive atr small enough for the rounding to matter: the ratio is not 1.5
C6_Witness ==
    /\ Analysed
    /\ Atr(call.df) > 0
    /\ ResultRiskPerShare > 0
    /\ ret.result.risk_reward # 1500

\* C10 as stated: with account_size > 0 and risk_pct >= 0, actual_risk is at
\* most max_risk_dollars and shares_to_buy is not negative; the position is
\* sized whether or not it is affordable.
C10_AsStated ==
    (Returned /\ call.account_size > 0 /\ call.risk_pct >= 0) =>
        /\ 100000 * ret.result.actual_risk <= BudgetE8
        /\ ret.result.shares_to_buy >= 0
        /\ Analysed =>
              /\ ret.result.affordable =
                    (ret.result.position_cost <= call.account_size)
              /\ ResultRiskPerShare > 0 =>
                    ret.result.shares_to_buy = BudgetE8 \div RiskPerShareE8

\* C10 amended: with account_size > 0 and risk_pct >= 0, shares_to_buy x
\* risk_per_share is at most max_risk_dollars and shares_to_buy is not
\* negative; actual_risk is that product rounded to 2 decimals and so at
\* most max_risk_dollars + 0.005; the position is sized whether or not it is
\* affordable.
C10_RiskBudget ==
    (Returned /\ call.account_size > 0 /\ call.risk_pct >= 0) =>
        /\ ret.result.shares_to_buy >= 0
        /\ 100000 * ret.result.actual_risk <= BudgetE8 + 500000
        /\ Analysed =>
              /\ ret.result.shares_to_buy * RiskPerShareE8 <= BudgetE8
                    \/ ResultRiskPerShare <= 0
              /\ ret.result.actual_risk =
                    Round2(ret.result.shares_to_buy * ResultRiskPerShare)
              /\ ret.result.affordable =
                    (ret.result.position_cost <= call.account_size)
              /\ ResultRiskPerShare > 0 =>
                    ret.result.shares_to_buy = BudgetE8 \div RiskPerShareE8
        /\ ~Analysed => ret.result.actual_risk = 0

\* a sized position that is not affordable and whose reported risk is above
\* the budget
C10_Witness ==
    /\ Analysed
    /\ call.risk_pct > 0
    /\ Atr(call.df) > 0
    /\ ret.result.shares_to_buy > 0
    /\ ~ret.result.affordable
    /\ 100000 * ret.result.actual_risk > BudgetE8

(***************************************************************************)
(* Properties of scan_stocks (ScanSpec).                                   *)
(***************************************************************************)
\* the result of each ticker, in the order of the submitted list
InTickerOrder == [i \in 1..Len(tasks) |-> tasks[i].outcome.result]

Rank(signal) ==
    IF signal = "STRONG BUY" THEN 0
    ELSE IF signal = "BUY SIGNAL" THEN 1
    ELSE IF signal = "WATCHLIST" THEN 2
    ELSE IF signal = "WAIT" THEN 3
    ELSE IF signal = "AVOID" THEN 4
    ELSE 5

\* the results of one rank, in ticker order
OfRank(n) == SelectSeq(InTickerOrder, LAMBDA r : Rank(r.signal) = n)

\* C7: the list returned is ordered by the rank STRONG BUY 0, BUY SIGNAL 1,
\* WATCHLIST 2, WAIT 3, AVOID 4, anything else 5, and results of equal rank
\* keep the order of their tickers in the submitted list, whatever the order
\* in which the tasks finished.
C7_StableOrder ==
    (pc = "done" /\ response.status = 200) =>
        response.results =
            OfRank(0) \o OfRank(1) \o OfRank(2) \o OfRank(3) \o OfRank(4) \o OfRank(5)

\* three tickers finishing last to first: an "Error" and an "N/A" result of
\* rank 5, then a STRONG BUY, which the sort moves to the front
C7_Witness ==
    /\ pc = "done"
    /\ response.status = 200
    /\ finished = <<3, 2, 1>>
    /\ tasks[1].outcome.result.signal = "Error"
    /\ tasks[2].outcome.result.signal = "N/A"
    /\ tasks[3].outcome.result.signal = "STRONG BUY"
    /\ response.results = <<tasks[3].outcome.result, tasks[1].outcome.result,
                            tasks[2].outcome.result>>

Count(seq, r) == Cardinality({i \in 1..Len(seq) : seq[i] = r})

RequestRow == Row(request.account_size, request.risk_pct, request.tickers)

\* C9 as stated: the settings write does not block the start of the fan-out
\* (while the write is running the route can go on to its tickers), and the
\* batch answers its results whatever the outcome of the write.
C9_AsStated ==
    /\ (pc = "save" /\ app_state.write = "running") => ENABLED (RespondEmpty \/ FanOut)
    /\ (pc = "done" /\ app_state.write = "failed") => response.status = 200

\* C9 amended: the settings write is one write per request, and the route
\* awaits it: no fetch_data is created or started before the row of the
\* request is committed, and when the write fails the route raises and no
\* ticker is fetched.
C9_SaveAwaited ==
    /\ (pc = "gather" \/ tasks # <<>>) =>
          /\ app_state.write = "committed"
          /\ app_state.row = RequestRow
    /\ (pc = "done" /\ response.status = 200) =>
          /\ app_state.write = "committed"
          /\ app_state.row = RequestRow
    /\ app_state.write = "failed" =>
          /\ tasks = <<>>
          /\ app_state.row = DefaultRow.row
          /\ pc = "done" => response.status = 500
    /\ app_state.write = "running" => app_state.row = DefaultRow.row

\* the first download is under way, the row of the request committed
C9_Witness ==
    /\ pc = "gather"
    /\ Len(tasks) >= 2
    /\ tasks[1].state = "fetching"
    /\ tasks[2].state = "created"
    /\ app_state.write = "committed"
    /\ app_state.row = RequestRow

====
